---- MODULE Spec2Model ----
(***************************************************************************)
(* Model of the invoice validation API (src/main.py): the per-row rule     *)
(* validator validate_invoice, the upload_invoices request handler         *)
(* (extension check, parse, duplicate detection, validation, report        *)
(* assembly, spreadsheet export and formatting, shutdown scheduling,       *)
(* response), the shutdown_server background task and the health endpoint. *)
(*                                                                         *)
(* Money amounts are integers in thousandths of a unit, quantities are     *)
(* integers in units, so that rounding to 2 decimals is a real conversion. *)
(***************************************************************************)
EXTENDS Integers, Sequences, FiniteSets, TLC

VARIABLES
    pc,                \* per request: position in upload_invoices
    filename,          \* per request: file.filename, as its dot-separated parts
    return_json,       \* per request: the return_json query flag
    content,           \* per request: what the uploaded bytes parse to
    df,                \* per request: the DataFrame (sequence of rows)
    output_file,       \* per request: the path computed at line 99
    background_tasks,  \* per request: tasks added to BackgroundTasks
    response,          \* per request: the response object the handler produced
    delivered,         \* per request: the payload the client received
    fs,                \* the working directory: path -> spreadsheet (shared)
    running,           \* the request holding the event loop (0: none)
    sigint,            \* the process has received SIGINT
    today,             \* the day datetime.now() reports
    health             \* last payload returned by health_check

vars == <<pc, filename, return_json, content, df, output_file, background_tasks,
          response, delivered, fs, running, sigint, today, health>>

(***************************************************************************)
(* Bounds                                                                  *)
(***************************************************************************)
MaxRows == 2        \* rows per uploaded table
MaxRequests == 2    \* concurrent upload requests
MaxDay == 1         \* days the clock may advance

Requests == 1..MaxRequests

(***************************************************************************)
(* Cells of a DataFrame                                                    *)
(***************************************************************************)
Num(n) == [k |-> "num", v |-> n]       \* a number
NaN == [k |-> "nan", v |-> 0]          \* a missing cell (pandas NaN)
Str == [k |-> "str", v |-> 0]          \* a non-numeric string
DateCell == [k |-> "date", v |-> 0]    \* a date value
Absent == [k |-> "absent", v |-> 0]    \* the table has no such column
Text(s) == [k |-> "text", v |-> s]     \* a column written by the handler
None == [k |-> "none", v |-> 0]        \* an empty spreadsheet cell

RequiredFields ==
    {"invoice_number", "part_number", "qty", "sell_price", "cost_price",
     "total_sale_value", "total_cost_value", "profit"}

MkRow(inv, part, qty, sp, cp, tsv, tcv, pr, d) ==
    [invoice_number |-> inv, part_number |-> part, qty |-> qty,
     sell_price |-> sp, cost_price |-> cp, total_sale_value |-> tsv,
     total_cost_value |-> tcv, profit |-> pr, date |-> d]

HasColumn(table, c) == table[1][c].k # "absent"

(***************************************************************************)
(* Rounding and arithmetic on cells                                        *)
(***************************************************************************)
\* round(x, 2) on a number held in thousandths: the nearest multiple of 10,
\* a tie going to the even hundredth.  (On binary floats the direction of a
\* tie depends on the representation; the input domains below hold no
\* amount that ends in 5 thousandths.)
Round2(x) ==
    LET q == x \div 10
        r == x % 10
    IN  IF r < 5 THEN 10 * q
        ELSE IF r > 5 THEN 10 * (q + 1)
        ELSE IF q % 2 = 0 THEN 10 * q ELSE 10 * (q + 1)

\* round(c, 2) of a cell that is a number or NaN: NaN stays NaN.
RoundCell(c) == IF c.k = "nan" THEN NaN ELSE Num(Round2(c.v))

\* a * b and a - b of cells that are numbers or NaN: NaN is contagious.
Arith(op, a, b) ==
    IF a.k = "nan" \/ b.k = "nan" THEN NaN
    ELSE IF op = "mul" THEN Num(a.v * b.v)
    ELSE Num(a.v - b.v)

\* x != y of cells that are numbers or NaN: NaN differs from everything.
NotEqual(x, y) == x.k = "nan" \/ y.k = "nan" \/ x.v # y.v

(***************************************************************************)
(* validate_invoice (src/main.py 27-46)                                    *)
(***************************************************************************)
Raise(cause) == [raised |-> TRUE, cause |-> cause, labels |-> <<>>]
Pass(labels) == [raised |-> FALSE, cause |-> "", labels |-> labels]

KeyError(f) == "'" \o f \o "'"
TypeError == "TypeError"

\* One mismatch rule, "if round(row[f1] op row[f2], 2) != round(row[f3], 2)",
\* evaluated left to right: a missing column raises KeyError at its
\* subscript, a string operand raises TypeError in the arithmetic or in
\* round.
MismatchRule(row, f1, op, f2, f3, label) ==
    IF row[f1].k = "absent" THEN Raise(KeyError(f1))
    ELSE IF row[f2].k = "absent" THEN Raise(KeyError(f2))
    ELSE IF row[f1].k = "str" \/ row[f2].k = "str" THEN Raise(TypeError)
    ELSE IF row[f3].k = "absent" THEN Raise(KeyError(f3))
    ELSE IF row[f3].k = "str" THEN Raise(TypeError)
    ELSE IF NotEqual(RoundCell(Arith(op, row[f1], row[f2])), RoundCell(row[f3]))
         THEN Pass(<<label>>)
         ELSE Pass(<<>>)

SaleRule(row) ==
    MismatchRule(row, "sell_price", "mul", "qty", "total_sale_value",
                 "Total sale mismatch")

CostRule(row) ==
    MismatchRule(row, "cost_price", "mul", "qty", "total_cost_value",
                 "Total cost mismatch")

ProfitRule(row) ==
    MismatchRule(row, "total_sale_value", "sub", "total_cost_value", "profit",
                 "Profit mismatch")

ValidationError(cause) == "Validation error: " \o cause

\* QuantityRule with the comparison "qty < 0".
QuantityRuleStrict(row) ==
    IF row["qty"].k = "absent" THEN Raise(KeyError("qty"))
    ELSE IF row["qty"].k = "str" THEN Raise(TypeError)
    ELSE IF row["qty"].k = "num" /\ row["qty"].v < 0
         THEN Pass(<<"Invalid quantity">>)
         ELSE Pass(<<>>)

\* "if row['qty'] <= 0": NaN <= 0 is false.
QuantityRule(row) ==
    IF row["qty"].k = "absent" THEN Raise(KeyError("qty"))
    ELSE IF row["qty"].k = "str" THEN Raise(TypeError)
    ELSE IF row["qty"].k = "num" /\ row["qty"].v <= 0
         THEN Pass(<<"Invalid quantity">>)
         ELSE Pass(<<>>)

\* validate_invoice with the rules chained by elif: the first rule that
\* fires hides the later ones.
validate_invoice_elif(row) ==
    LET r1 == SaleRule(row)
        r2 == CostRule(row)
        r3 == ProfitRule(row)
        r4 == QuantityRule(row)
    IN  IF r1.raised THEN <<ValidationError(r1.cause)>>
        ELSE IF r1.labels # <<>> THEN r1.labels
        ELSE IF r2.raised THEN <<ValidationError(r2.cause)>>
        ELSE IF r2.labels # <<>> THEN r2.labels
        ELSE IF r3.raised THEN <<ValidationError(r3.cause)>>
        ELSE IF r3.labels # <<>> THEN r3.labels
        ELSE IF r4.raised THEN <<ValidationError(r4.cause)>>
        ELSE r4.labels

\* The try block runs the four rules in order, appending to issues; the
\* first exception ends the block and appends the validation error to what
\* was appended so far.
validate_invoice(row) ==
    LET r1 == SaleRule(row)
        r2 == CostRule(row)
        r3 == ProfitRule(row)
        r4 == QuantityRule(row)
    IN  IF r1.raised THEN <<ValidationError(r1.cause)>>
        ELSE IF r2.raised THEN r1.labels \o <<ValidationError(r2.cause)>>
        ELSE IF r3.raised
             THEN r1.labels \o r2.labels \o <<ValidationError(r3.cause)>>
        ELSE IF r4.raised
             THEN r1.labels \o r2.labels \o r3.labels
                  \o <<ValidationError(r4.cause)>>
        ELSE r1.labels \o r2.labels \o r3.labels \o r4.labels

(***************************************************************************)
(* Duplicate detection and report assembly (src/main.py 79-95)             *)
(***************************************************************************)
\* df.duplicated(subset=[...], keep=False) raises KeyError when a key
\* column is missing from the table.
DuplicatedRaises(table) ==
    ~HasColumn(table, "invoice_number") \/ ~HasColumn(table, "part_number")

\* duplicated with keep="first": the first member of a group is not marked.
duplicatedKeepFirst(table) ==
    [i \in 1..Len(table) |->
        \E j \in 1..(i - 1) :
            /\ table[j]["invoice_number"] = table[i]["invoice_number"]
            /\ table[j]["part_number"] = table[i]["part_number"]]

\* keep=False: every member of a group of equal keys is marked.
duplicated(table) ==
    [i \in 1..Len(table) |->
        \E j \in 1..Len(table) :
            /\ j # i
            /\ table[j]["invoice_number"] = table[i]["invoice_number"]
            /\ table[j]["part_number"] = table[i]["part_number"]]

\* Lines 88-90: rows marked duplicate get the label appended.
AddDuplicateFlag(issues, is_duplicate) ==
    IF is_duplicate THEN issues \o <<"Duplicate invoice">> ELSE issues

\* ", ".join(x) if x else "": the string is held as the sequence of pieces
\* whose concatenation it is, the empty string as the empty sequence.
Join(x) ==
    [n \in 1..(IF Len(x) = 0 THEN 0 ELSE 2 * Len(x) - 1) |->
        IF n % 2 = 1 THEN x[(n + 1) \div 2] ELSE ", "]

\* "Valid" if x == "" else "Invalid"
StatusOf(issue_type) == IF issue_type = <<>> THEN "Valid" ELSE "Invalid"

\* The issue list of row i after lines 84-90.
IssueList(table, i) ==
    AddDuplicateFlag(validate_invoice(table[i]), duplicated(table)[i])

\* AnnotateRow with the status taken from the validator's labels, before
\* the duplicate label is appended.
AnnotateRowStatusFirst(table, i) ==
    LET issue_type == Join(IssueList(table, i))
    IN  table[i] @@ ("Issue Type" :> Text(issue_type))
                 @@ ("Status" :> Text(StatusOf(Join(validate_invoice(table[i])))))

\* Lines 84-95 for one row: the row with its Issue Type and Status columns
\* (the is_duplicate column is added and dropped again).
AnnotateRow(table, i) ==
    LET issue_type == Join(IssueList(table, i))
    IN  table[i] @@ ("Issue Type" :> Text(issue_type))
                 @@ ("Status" :> Text(StatusOf(issue_type)))

AnnotateTable(table) == [i \in 1..Len(table) |-> AnnotateRow(table, i)]

(***************************************************************************)
(* Spreadsheet export and formatting (src/main.py 97-126)                  *)
(***************************************************************************)
NoFill == "none"
red == "FFC7CE"
green == "C6EFCE"

Columns(table) == {c \in DOMAIN table[1] : HasColumn(table, c)}

\* to_excel writes a missing value as an empty cell.
ExcelValue(c) == IF c.k = "nan" THEN None ELSE c

PlainCell(value) == [value |-> value, fill |-> NoFill, style |-> "Normal"]

\* df.to_excel(output_file, index=False): a header row and one row per
\* record, no formatting.
to_excel(table) ==
    [header |-> [c \in Columns(table) |-> PlainCell(Text(c))],
     rows |-> [i \in 1..Len(table) |->
                 [c \in Columns(table) |-> PlainCell(ExcelValue(table[i][c]))]]]

\* Lines 113-118: a date cell holding a value takes the named style, which
\* replaces the whole cell style (its fill included).
ApplyDateStyle(row) ==
    IF "date" \in DOMAIN row /\ row["date"].value.k # "none"
    THEN [row EXCEPT !["date"] =
            [value |-> @.value, fill |-> NoFill, style |-> "datetime"]]
    ELSE row

\* Lines 121-124: every cell of the row takes the fill chosen from the
\* value of the row's Status cell.
ApplyStatusFill(row) ==
    LET fill == IF row["Status"].value = Text("Invalid") THEN red ELSE green
    IN  [c \in DOMAIN row |-> [row[c] EXCEPT !.fill = fill]]

\* FormatRow with the status fill applied before the date style.
FormatRowFillFirst(row) == ApplyDateStyle(ApplyStatusFill(row))

\* Lines 104-124 on one data row (rows from min_row=2 on; the header row is
\* not visited).
FormatRow(row) == ApplyStatusFill(ApplyDateStyle(row))

FormatWorkbook(wb) ==
    [wb EXCEPT !.rows = [i \in 1..Len(wb.rows) |-> FormatRow(wb.rows[i])]]

(***************************************************************************)
(* Request inputs                                                          *)
(***************************************************************************)
\* The extension check finding ".json" or ".csv" anywhere in the name.
SupportedExtensionAnywhere(name) ==
    \E n \in 2..Len(name) : name[n] \in {"json", "csv"}

\* file.filename.endswith((".json", ".csv")) on a name held as its
\* dot-separated parts.
EndsWith(name, ext) == Len(name) >= 2 /\ name[Len(name)] = ext
SupportedExtension(name) == EndsWith(name, "json") \/ EndsWith(name, "csv")

\* f"validated_{file.filename.split('.')[0]}_{today_str}.xlsx"
OutputFile(name, day) == <<"validated", name[1], day, "xlsx">>

\* The file names uploads carry, as dot-separated parts.
Filenames ==
    {<<"a", "csv">>, <<"a", "json">>, <<"a", "txt">>, <<"a", "csv", "bak">>}

Unparseable == <<>>          \* content that read_json / read_csv rejects
NoTable == <<>>
NoFile == <<>>
NoResponse == [status_code |-> 0, kind |-> "none", body |-> <<>>]
HTTPException(code, detail) ==
    [status_code |-> code, kind |-> "error", body |-> <<detail>>]
ServerError(exc) == [status_code |-> 500, kind |-> "error", body |-> <<exc>>]
JSONResponse(records) == [status_code |-> 200, kind |-> "json", body |-> records]
FileResponse(path) == [status_code |-> 200, kind |-> "file", body |-> path]

\* JSONResponse renders with allow_nan=False: a NaN cell makes it raise.
RenderRaises(table) ==
    \E i \in 1..Len(table) : \E c \in DOMAIN table[i] : table[i][c].k = "nan"

(***************************************************************************)
(* upload_invoices (src/main.py 59-141), one action per step.  The handler *)
(* is a coroutine: it gives up the event loop at "await file.read()" and   *)
(* when it returns or raises; the code between runs without interleaving.  *)
(***************************************************************************)
\* Lines 60-70: the request arrives with its inputs (a file name, the
\* return_json flag and content that is unparseable or parses to one of
\* tables); the extension check rejects it or the handler awaits the
\* upload's content.
Upload(r, tables) ==
    /\ pc[r] = "idle"
    /\ running = 0
    /\ ~sigint
    /\ \E name \in Filenames, json \in BOOLEAN,
          upload \in tables \cup {Unparseable} :
          /\ filename' = [filename EXCEPT ![r] = name]
          /\ return_json' = [return_json EXCEPT ![r] = json]
          /\ content' = [content EXCEPT ![r] = upload]
          /\ IF SupportedExtension(name)
             THEN /\ pc' = [pc EXCEPT ![r] = "reading"]
                  /\ UNCHANGED response
             ELSE /\ pc' = [pc EXCEPT ![r] = "rejected"]
                  /\ response' = [response EXCEPT ![r] =
                         HTTPException(400, "Only JSON or CSV files supported")]
    /\ UNCHANGED <<df, output_file, background_tasks, delivered, fs, running,
                   sigint, today, health>>

\* Lines 70-77: the content arrives and is parsed into the DataFrame.
ReadFile(r) ==
    /\ pc[r] = "reading"
    /\ running = 0
    /\ IF content[r] = Unparseable
       THEN /\ pc' = [pc EXCEPT ![r] = "rejected"]
            /\ response' = [response EXCEPT ![r] =
                   HTTPException(400, "File read error")]
            /\ UNCHANGED <<df, running>>
       ELSE /\ pc' = [pc EXCEPT ![r] = "parsed"]
            /\ df' = [df EXCEPT ![r] = content[r]]
            /\ running' = r
            /\ UNCHANGED response
    /\ UNCHANGED <<filename, return_json, content, output_file,
                   background_tasks, delivered, fs, sigint, today, health>>

\* Lines 79-95: duplicate detection, rule validation, duplicate label,
\* issue string, status.  A missing key column raises out of the handler.
Annotate(r) ==
    /\ pc[r] = "parsed"
    /\ running = r
    /\ IF DuplicatedRaises(df[r])
       THEN /\ pc' = [pc EXCEPT ![r] = "failed"]
            /\ response' = [response EXCEPT ![r] = ServerError("KeyError")]
            /\ running' = 0
            /\ UNCHANGED df
       ELSE /\ pc' = [pc EXCEPT ![r] = "annotated"]
            /\ df' = [df EXCEPT ![r] = AnnotateTable(df[r])]
            /\ UNCHANGED <<response, running>>
    /\ UNCHANGED <<filename, return_json, content, output_file,
                   background_tasks, delivered, fs, sigint, today, health>>

\* Lines 97-101: the output path is computed from the file name and the
\* date, and the table is written there.  Writing may fail.
ToExcel(r) ==
    /\ pc[r] = "annotated"
    /\ running = r
    /\ LET path == OutputFile(filename[r], today)
       IN  \/ /\ output_file' = [output_file EXCEPT ![r] = path]
              /\ fs' = [p \in DOMAIN fs \cup {path} |->
                          IF p = path THEN to_excel(df[r]) ELSE fs[p]]
              /\ pc' = [pc EXCEPT ![r] = "exported"]
              /\ UNCHANGED <<response, running>>
           \/ /\ output_file' = [output_file EXCEPT ![r] = path]
              /\ pc' = [pc EXCEPT ![r] = "failed"]
              /\ response' = [response EXCEPT ![r] = ServerError("OSError")]
              /\ running' = 0
              /\ UNCHANGED fs
    /\ UNCHANGED <<filename, return_json, content, df, background_tasks,
                   delivered, sigint, today, health>>

\* Lines 103-126: the workbook is loaded from the output path, formatted
\* and saved back.  Loading or saving may fail.
Format(r) ==
    /\ pc[r] = "exported"
    /\ running = r
    /\ \/ /\ fs' = [fs EXCEPT ![output_file[r]] = FormatWorkbook(@)]
          /\ pc' = [pc EXCEPT ![r] = "formatted"]
          /\ UNCHANGED <<response, running>>
       \/ /\ pc' = [pc EXCEPT ![r] = "failed"]
          /\ response' = [response EXCEPT ![r] = ServerError("OSError")]
          /\ running' = 0
          /\ UNCHANGED fs
    /\ UNCHANGED <<filename, return_json, content, df, output_file,
                   background_tasks, delivered, sigint, today, health>>

\* The task is built and never added.
AddShutdownTaskDropped(tasks) == tasks

\* Lines 128-131: background_tasks.add_task(shutdown_server).
AddShutdownTask(tasks) == Append(tasks, "shutdown_server")

ScheduleShutdown(r) ==
    /\ pc[r] = "formatted"
    /\ running = r
    /\ background_tasks' =
           [background_tasks EXCEPT ![r] = AddShutdownTask(@)]
    /\ pc' = [pc EXCEPT ![r] = "scheduled"]
    /\ UNCHANGED <<filename, return_json, content, df, output_file, response,
                   delivered, fs, running, sigint, today, health>>

\* Lines 133-141: the handler returns the JSON payload or a response that
\* names the output path; the file is read when the response is sent.
Respond(r) ==
    /\ pc[r] = "scheduled"
    /\ running = r
    /\ running' = 0
    /\ IF return_json[r]
       THEN IF RenderRaises(df[r])
            THEN /\ pc' = [pc EXCEPT ![r] = "failed"]
                 /\ response' = [response EXCEPT ![r] = ServerError("ValueError")]
            ELSE /\ pc' = [pc EXCEPT ![r] = "responding"]
                 /\ response' = [response EXCEPT ![r] = JSONResponse(df[r])]
       ELSE /\ pc' = [pc EXCEPT ![r] = "responding"]
            /\ response' = [response EXCEPT ![r] = FileResponse(output_file[r])]
    /\ UNCHANGED <<filename, return_json, content, df, output_file,
                   background_tasks, delivered, fs, sigint, today, health>>

\* The framework sends the response: a file response reads the path now.
SendResponse(r) ==
    /\ pc[r] = "responding"
    /\ running = 0
    /\ delivered' = [delivered EXCEPT ![r] =
           IF response[r].kind = "file" THEN fs[response[r].body]
           ELSE response[r].body]
    /\ pc' = [pc EXCEPT ![r] = "sent"]
    /\ UNCHANGED <<filename, return_json, content, df, output_file,
                   background_tasks, response, fs, running, sigint, today,
                   health>>

\* Lines 51-54: shutdown_server sends SIGINT to the process; the other
\* tasks of a list (there are none) leave it alone.
RunTasks(tasks, signalled) ==
    IF \E n \in 1..Len(tasks) : tasks[n] = "shutdown_server"
    THEN TRUE
    ELSE signalled

\* The framework runs the request's background tasks after its response.
RunBackground(r) ==
    /\ pc[r] = "sent"
    /\ pc' = [pc EXCEPT ![r] = "done"]
    /\ sigint' = RunTasks(background_tasks[r], sigint)
    /\ UNCHANGED <<filename, return_json, content, df, output_file,
                   background_tasks, response, delivered, fs, running, today,
                   health>>

\* Lines 143-145: the health endpoint returns a fixed payload.
health_check ==
    /\ running = 0
    /\ ~sigint
    /\ health' = "Invoice Validation API running"
    /\ UNCHANGED <<pc, filename, return_json, content, df, output_file,
                   background_tasks, response, delivered, fs, running, sigint,
                   today>>

\* The date reported by datetime.now() advances.
Midnight ==
    /\ today < MaxDay
    /\ today' = today + 1
    /\ UNCHANGED <<pc, filename, return_json, content, df, output_file,
                   background_tasks, response, delivered, fs, running, sigint,
                   health>>

(***************************************************************************)
(* Input domains                                                           *)
(***************************************************************************)
\* A table without column c.
DropColumn(table, c) ==
    [i \in 1..Len(table) |-> [table[i] EXCEPT ![c] = Absent]]

\* A table whose column c holds no value in any row.
BlankColumn(table, c) ==
    [i \in 1..Len(table) |-> [table[i] EXCEPT ![c] = NaN]]

TablesOver(rows) == UNION {[1..n -> rows] : n \in 1..MaxRows}

\* Rows of the request-level specification: two keys, a valid and an
\* invalid quantity, a date cell with and without a value.
PipelineRows ==
    {MkRow(Num(1), Num(p), Num(q), Num(1004), Num(500), Num(2011), Num(1000),
           Num(1012), d) :
        p \in {1, 2}, q \in {0, 2}, d \in {NaN, DateCell}}

PipelineTables ==
    UNION {{t, DropColumn(t, "date"), DropColumn(t, "invoice_number"),
            BlankColumn(t, "sell_price")} : t \in TablesOver(PipelineRows)}

\* Rows of the annotation specification: all-numeric rows over four keys
\* that make each rule pass and fail, in tables of up to MaxRows rows ...
NumericRows ==
    {MkRow(Num(inv), Num(part), Num(q), Num(1004), Num(500), Num(tsv),
           Num(tcv), Num(pr), Absent) :
        inv \in {1, 2}, part \in {1, 2}, q \in {0, 2}, tsv \in {2000, 2011},
        tcv \in {1000, 1010}, pr \in {1000, 1012}}

\* ... and single rows in which every field the validator reads may also
\* be missing (NaN), non-numeric (Str) or without a column (Absent).
Faulty == {NaN, Str, Absent}

RichRows ==
    {MkRow(inv, Num(1), q, sp, cp, tsv, tcv, pr, Absent) :
        inv \in {Num(1), NaN, Absent},
        q \in {Num(-1), Num(0), Num(2)} \cup Faulty,
        sp \in {Num(1004)} \cup Faulty,
        cp \in {Num(500)} \cup Faulty,
        tsv \in {Num(2000), Num(2011)} \cup Faulty,
        tcv \in {Num(1000), Num(1010)} \cup Faulty,
        pr \in {Num(1000), Num(1012)} \cup Faulty}

AnnotateTables == TablesOver(NumericRows) \cup {<<row>> : row \in RichRows}

\* Tables of the two-request specification: one valid and one invalid row.
ConcurrentTables ==
    {<<MkRow(Num(1), Num(1), Num(q), Num(1004), Num(500), Num(2011),
             Num(1000), Num(1012), Absent)>> : q \in {0, 2}}

(***************************************************************************)
(* Specifications                                                          *)
(***************************************************************************)
Init ==
    /\ pc = [r \in Requests |-> "idle"]
    /\ filename = [r \in Requests |-> <<>>]
    /\ return_json = [r \in Requests |-> FALSE]
    /\ content = [r \in Requests |-> Unparseable]
    /\ df = [r \in Requests |-> NoTable]
    /\ output_file = [r \in Requests |-> <<>>]
    /\ background_tasks = [r \in Requests |-> <<>>]
    /\ response = [r \in Requests |-> NoResponse]
    /\ delivered = [r \in Requests |-> NoFile]
    /\ fs = [p \in {} |-> NoFile]
    /\ running = 0
    /\ sigint = FALSE
    /\ today = 0
    /\ health = ""

\* The steps of request r after its arrival.
Handle(r) ==
    \/ ReadFile(r)
    \/ Annotate(r)
    \/ ToExcel(r)
    \/ Format(r)
    \/ ScheduleShutdown(r)
    \/ Respond(r)
    \/ SendResponse(r)
    \/ RunBackground(r)

\* One upload, from arrival to the shutdown it schedules.
Next ==
    \/ Upload(1, PipelineTables)
    \/ Handle(1)
    \/ health_check

Spec == Init /\ [][Next]_vars

\* The framework runs a sent response's background tasks.
FairSpec == Spec /\ WF_vars(RunBackground(1))

\* Concurrent uploads.
NextConcurrent ==
    \/ \E r \in Requests : Upload(r, ConcurrentTables)
    \/ \E r \in Requests : Handle(r)
    \/ Midnight

SpecConcurrent == Init /\ [][NextConcurrent]_vars

\* The annotation of a parsed table: request 1 has parsed its upload.
InitAnnotate ==
    /\ \E table \in AnnotateTables :
          /\ content = [r \in Requests |-> IF r = 1 THEN table ELSE Unparseable]
          /\ df = [r \in Requests |-> IF r = 1 THEN table ELSE NoTable]
    /\ pc = [r \in Requests |-> IF r = 1 THEN "parsed" ELSE "idle"]
    /\ filename = [r \in Requests |-> IF r = 1 THEN <<"a", "csv">> ELSE <<>>]
    /\ return_json = [r \in Requests |-> FALSE]
    /\ output_file = [r \in Requests |-> <<>>]
    /\ background_tasks = [r \in Requests |-> <<>>]
    /\ response = [r \in Requests |-> NoResponse]
    /\ delivered = [r \in Requests |-> NoFile]
    /\ fs = [p \in {} |-> NoFile]
    /\ running = 1
    /\ sigint = FALSE
    /\ today = 0
    /\ health = ""

NextAnnotate == Annotate(1)

SpecAnnotate == InitAnnotate /\ [][NextAnnotate]_vars

(***************************************************************************)
(* Properties of the annotation (checked under SpecAnnotate)               *)
(***************************************************************************)
Range(seq) == {seq[n] : n \in 1..Len(seq)}

\* The tables whose rows carry the Issue Type and Status columns.
IsAnnotated(table) == table # NoTable /\ "Status" \in DOMAIN table[1]

AnnotatedRows == {<<r, i>> \in Requests \X (1..MaxRows) :
                     IsAnnotated(df[r]) /\ i <= Len(df[r])}

IssueType(r, i) == df[r][i]["Issue Type"].v
Status(r, i) == df[r][i]["Status"].v

SameKey(table, i, j) ==
    /\ table[i]["invoice_number"] = table[j]["invoice_number"]
    /\ table[i]["part_number"] = table[j]["part_number"]

InDuplicateGroup(table, i) ==
    \E j \in 1..Len(table) : j # i /\ SameKey(table, i, j)

\* C1: every annotated record carries exactly one of the statuses "Valid"
\* and "Invalid", and it is "Invalid" exactly when the record's issue
\* sequence (validator labels plus the duplicate label) is non-empty.
C1_StatusIffIssues ==
    \A ri \in AnnotatedRows :
        /\ Status(ri[1], ri[2]) \in {"Valid", "Invalid"}
        /\ Status(ri[1], ri[2]) = "Invalid"
               <=> IssueList(df[ri[1]], ri[2]) # <<>>

C1_Witness ==
    \E ri \in AnnotatedRows, rj \in AnnotatedRows :
        /\ ri[1] = rj[1]
        /\ Status(ri[1], ri[2]) = "Valid" /\ IssueType(ri[1], ri[2]) = <<>>
        /\ Status(rj[1], rj[2]) = "Invalid"
        /\ validate_invoice(df[rj[1]][rj[2]]) # <<>>

\* C2: a record's issue string contains "Duplicate invoice" exactly when
\* another record of the same table has the same (invoice_number,
\* part_number) key: all members of a group are flagged, the first too, and
\* no record with a unique key is.
C2_DuplicateIffSharedKey ==
    \A ri \in AnnotatedRows :
        "Duplicate invoice" \in Range(IssueType(ri[1], ri[2]))
            <=> InDuplicateGroup(df[ri[1]], ri[2])

C2_Witness ==
    \E r \in Requests :
        /\ IsAnnotated(df[r])
        /\ Len(df[r]) >= 2
        /\ SameKey(df[r], 1, 2)
        /\ "Duplicate invoice" \in Range(IssueType(r, 1))
        /\ "Duplicate invoice" \in Range(IssueType(r, 2))

AllNumeric(row) == \A f \in RequiredFields : row[f].k = "num"

\* The labels the four rules and the duplicate rule give an all-numeric
\* record, each decided on its own, in the order of the rules.
ExpectedLabels(table, i) ==
    LET row == table[i]
        qty == row["qty"].v
    IN  (IF Round2(row["sell_price"].v * qty)
               # Round2(row["total_sale_value"].v)
         THEN <<"Total sale mismatch">> ELSE <<>>)
        \o (IF Round2(row["cost_price"].v * qty)
                  # Round2(row["total_cost_value"].v)
            THEN <<"Total cost mismatch">> ELSE <<>>)
        \o (IF Round2(row["total_sale_value"].v - row["total_cost_value"].v)
                  # Round2(row["profit"].v)
            THEN <<"Profit mismatch">> ELSE <<>>)
        \o (IF qty <= 0 THEN <<"Invalid quantity">> ELSE <<>>)
        \o (IF InDuplicateGroup(table, i)
            THEN <<"Duplicate invoice">> ELSE <<>>)

\* The ", "-join of a sequence of at most five labels, written out.
Joined(x) ==
    CASE Len(x) = 0 -> <<>>
      [] Len(x) = 1 -> <<x[1]>>
      [] Len(x) = 2 -> <<x[1], ", ", x[2]>>
      [] Len(x) = 3 -> <<x[1], ", ", x[2], ", ", x[3]>>
      [] Len(x) = 4 -> <<x[1], ", ", x[2], ", ", x[3], ", ", x[4]>>
      [] Len(x) = 5 -> <<x[1], ", ", x[2], ", ", x[3], ", ", x[4], ", ", x[5]>>

\* C3: for a record whose eight required fields are all present and
\* numeric, the issue string is the ", "-join of the labels of the rules
\* that fire, each rule decided independently of the others, in the order
\* sale, cost, profit, quantity, duplicate; no label gives the empty string.
C3_IssueStringOfNumericRow ==
    \A ri \in AnnotatedRows :
        AllNumeric(df[ri[1]][ri[2]])
            => IssueType(ri[1], ri[2]) = Joined(ExpectedLabels(df[ri[1]], ri[2]))

C3_Witness ==
    \E ri \in AnnotatedRows :
        /\ AllNumeric(df[ri[1]][ri[2]])
        /\ IssueType(ri[1], ri[2]) =
               <<"Total sale mismatch", ", ", "Total cost mismatch", ", ",
                 "Profit mismatch", ", ", "Invalid quantity", ", ",
                 "Duplicate invoice">>

NonPositiveQty(row) == row["qty"].k = "num" /\ row["qty"].v <= 0

\* C4 as claimed: a record whose qty is 0 or negative has "Invalid
\* quantity" among its issues whatever its other fields are, missing and
\* non-numeric ones included.
C4_Original ==
    \A ri \in AnnotatedRows :
        NonPositiveQty(df[ri[1]][ri[2]])
            => "Invalid quantity" \in Range(IssueType(ri[1], ri[2]))

OtherRuleFields ==
    {"sell_price", "cost_price", "total_sale_value", "total_cost_value",
     "profit"}

\* C4 as amended: a record whose qty is 0 or negative has "Invalid
\* quantity" among its issues whatever the values of its other fields,
\* empty cells included, provided sell_price, cost_price, total_sale_value,
\* total_cost_value and profit each have a column and hold no non-numeric
\* string.
C4_InvalidQuantity ==
    \A ri \in AnnotatedRows :
        (/\ NonPositiveQty(df[ri[1]][ri[2]])
         /\ \A f \in OtherRuleFields : df[ri[1]][ri[2]][f].k \in {"num", "nan"})
            => "Invalid quantity" \in Range(IssueType(ri[1], ri[2]))

C4_Witness ==
    \E ri \in AnnotatedRows :
        /\ df[ri[1]][ri[2]]["qty"] = Num(-1)
        /\ df[ri[1]][ri[2]]["profit"] = NaN
        /\ "Invalid quantity" \in Range(IssueType(ri[1], ri[2]))

ValidationErrors ==
    {ValidationError(KeyError(f)) : f \in RequiredFields}
        \cup {ValidationError(TypeError)}

RuleLabels ==
    {"Total sale mismatch", "Total cost mismatch", "Profit mismatch",
     "Invalid quantity"}

\* C5: a record in which a required field is missing or non-numeric gets a
\* "Validation error: <cause>" label and none of the four rule labels.
C5_ValidationErrorInsteadOfRules ==
    \A ri \in AnnotatedRows :
        (\E f \in RequiredFields : df[ri[1]][ri[2]][f].k \in {"nan", "str", "absent"})
            => /\ Range(IssueType(ri[1], ri[2])) \cap ValidationErrors # {}
               /\ Range(IssueType(ri[1], ri[2])) \cap RuleLabels = {}

(***************************************************************************)
(* Properties of one upload request (checked under Spec and FairSpec)      *)
(***************************************************************************)
HasFault(table) ==
    \E i \in 1..Len(table) : \E f \in RequiredFields :
        table[i][f].k \in {"nan", "str", "absent"}

\* C6: a missing or non-numeric required field of a parsed table never
\* makes the request fail (only a failure to write or read the output file
\* does).
C6_FaultNeverFailsRequest ==
    \A r \in Requests :
        (df[r] # NoTable /\ HasFault(df[r]) /\ pc[r] = "failed")
            => response[r] = ServerError("OSError")

\* C7: an upload whose name does not end in .json or .csv, or whose
\* content does not parse, is answered 400 and nothing else happens for it:
\* no table is annotated, no output file is written, no shutdown is
\* scheduled.
C7_RejectedWithoutProcessing ==
    \A r \in Requests :
        (/\ pc[r] # "idle"
         /\ \/ filename[r][Len(filename[r])] \notin {"json", "csv"}
            \/ content[r] = Unparseable /\ pc[r] # "reading")
            => /\ pc[r] = "rejected"
               /\ response[r].status_code = 400
               /\ df[r] = NoTable
               /\ output_file[r] = <<>>
               /\ DOMAIN fs = {}
               /\ background_tasks[r] = <<>>
               /\ delivered[r] = NoFile
               /\ ~sigint

C7_Witness ==
    \E r \in Requests :
        /\ pc[r] = "rejected"
        /\ filename[r] = <<"a", "csv">>
        /\ content[r] = Unparseable
        /\ response[r] = HTTPException(400, "File read error")

\* The requests whose formatted workbook has been saved.
Saved(r) ==
    \/ pc[r] \in {"formatted", "scheduled", "responding", "sent", "done"}
    \/ pc[r] = "failed" /\ response[r] = ServerError("ValueError")

\* C8: in the saved spreadsheet every cell of a data row, the styled date
\* cell included, has the red fill when the row's Status is "Invalid" and
\* the green fill otherwise; no header cell is filled.
C8_RowFillFollowsStatus ==
    \A r \in Requests :
        Saved(r) =>
            LET wb == fs[output_file[r]]
            IN  /\ \A c \in DOMAIN wb.header : wb.header[c].fill = NoFill
                /\ Len(wb.rows) = Len(df[r])
                /\ \A i \in 1..Len(wb.rows) : \A c \in DOMAIN wb.rows[i] :
                       wb.rows[i][c].fill =
                           IF Status(r, i) = "Invalid" THEN red ELSE green

C8_Witness ==
    \E r \in Requests :
        /\ Saved(r)
        /\ Len(df[r]) = 2
        /\ Status(r, 1) = "Invalid" /\ Status(r, 2) = "Valid"
        /\ fs[output_file[r]].rows[1]["date"] =
               [value |-> DateCell, fill |-> red, style |-> "datetime"]
        /\ fs[output_file[r]].rows[2]["date"] =
               [value |-> DateCell, fill |-> green, style |-> "datetime"]

\* The state part of C10: a request past line 131 has the shutdown task
\* in its background tasks, in file mode and in JSON mode; a request that
\* was rejected or failed before line 131 has none; and the process gets
\* SIGINT only from the task of a request whose response was sent.
C10_Scheduling ==
    /\ \A r \in Requests :
          /\ pc[r] \in {"scheduled", "responding", "sent", "done"}
                => background_tasks[r] = <<"shutdown_server">>
          /\ (\/ pc[r] \in {"idle", "reading", "rejected", "parsed",
                            "annotated", "exported", "formatted"}
              \/ pc[r] = "failed" /\ response[r] # ServerError("ValueError"))
                => background_tasks[r] = <<>>
    /\ sigint => \E r \in Requests : pc[r] = "done"

\* C10: every request that reaches the end of the export schedules
\* shutdown_server, whatever its mode, and once its response is sent the
\* process receives SIGINT; a rejected request, a request that fails in
\* the export and the health endpoint schedule nothing.
C10_ShutdownAfterUpload ==
    /\ []C10_Scheduling
    /\ \A r \in Requests : (pc[r] = "sent") ~> sigint

C10_Witness ==
    \E r \in Requests :
        /\ pc[r] = "done"
        /\ return_json[r]
        /\ response[r].kind = "json"
        /\ health # ""
        /\ sigint

(***************************************************************************)
(* Property of concurrent uploads (checked under SpecConcurrent)           *)
(***************************************************************************)
\* The values of a workbook's data rows, without their formatting.
CellValues(wb) ==
    [i \in 1..Len(wb.rows) |->
        [c \in DOMAIN wb.rows[i] |-> wb.rows[i][c].value]]

\* C9: the spreadsheet a request returns holds the rows generated from its
\* own table, whatever the other request does.
C9_ReturnsOwnSpreadsheet ==
    \A r \in Requests :
        (pc[r] \in {"sent", "done"} /\ response[r].kind = "file")
            => CellValues(delivered[r]) = CellValues(to_excel(df[r]))

====
